---- MODULE Spec2Model ----
(***************************************************************************)
(* A model of github_api_core: the repository-reference conversions of     *)
(* url_utils.py, GithubApi.build_repo_url / sanitize_repo_name, and the    *)
(* temp-directory life cycle of GithubRepo.clone_repo and                  *)
(* fetch_file_sparse.                                                      *)
(*                                                                         *)
(* A Python str is a sequence of one-character strings, so that every      *)
(* conversion is computed character by character as the code computes it.  *)
(* urlparse is modelled after CPython 3.11 (urllib/parse.py): leading      *)
(* C0-control/space is stripped, tab/CR/LF are removed, the scheme is      *)
(* lower-cased, the authority follows "//" up to the first of "/?#", and   *)
(* .hostname drops userinfo and port and is lower-cased.  Bracketed IPv6   *)
(* hosts and "%" zones are outside the alphabet of the model.              *)
(***************************************************************************)
EXTENDS Integers, Sequences, FiniteSets, TLC

VARIABLES
    ref,        \* url_utils: the repo reference handed to the functions
    fn,         \* url_utils: the function called last ("init" before any)
    out,        \* url_utils: what that call returned
    owner,      \* build_repo_url: argument owner
    name,       \* build_repo_url: argument name
    built,      \* build_repo_url: outcome of the call
    pc,         \* clone/fetch: position inside the running call
    call,       \* clone/fetch: the arguments of the running call
    target,     \* clone/fetch: the directory the call works in (0: none yet)
    made,       \* temp_mgr: directories handed out by make_dir, in order
    cleaned,    \* temp_mgr: directories cleanup was called on
    exit,       \* clone/fetch: how the last call left
    calls,      \* clone/fetch: number of calls started
    ghPath,     \* GithubApi._GH_PATH: the cached CLI path ("" for None)
    ghThread,   \* require_gh: per thread, the position in its running call
    ghChecks,   \* require_gh: check sequences run through (which, --version, auth status)
    ghCalls,    \* require_gh: calls started
    ghLast,     \* require_gh: per thread, how its last call left
    repoArgs,   \* GithubRepo(...): url, branch and what the gh commands answered
    repo,       \* GithubRepo(...): the constructed object, or the exception
    repoPc,     \* GithubRepo(...): where __init__ is, and the gh command ahead
    repoCount,  \* GithubRepo(...): constructions started
    pushPc,     \* push_initial_commit: the git step about to run
    pushUrl,    \* push_initial_commit: remote_url
    pushLog,    \* push_initial_commit: the git steps run so far, with outcomes
    pushExit    \* push_initial_commit: how the call left

urlVars   == <<ref, fn, out>>
buildVars == <<owner, name, built>>
cloneVars == <<pc, call, target, made, cleaned, exit, calls>>
ghVars    == <<ghPath, ghThread, ghChecks, ghCalls, ghLast>>
repoVars  == <<repoArgs, repo, repoPc, repoCount>>
pushVars  == <<pushPc, pushUrl, pushLog, pushExit>>
apiVars   == <<ghVars, repoVars, pushVars>>
vars      == <<ref, fn, out, owner, name, built,
               pc, call, target, made, cleaned, exit, calls,
               ghPath, ghThread, ghChecks, ghCalls, ghLast, repoArgs, repo, repoPc, repoCount,
               pushPc, pushUrl, pushLog, pushExit>>

-----------------------------------------------------------------------------
(* Bounds of the model.                                                    *)

MaxPad      == 1    \* blanks before / after a reference
MaxSlashes  == 1    \* extra slashes before / after the path of a reference
MaxGit      == 2    \* ".git" suffixes on a reference
MaxNameLen  == 5    \* length of a repository name given to build_repo_url
MaxCalls    == 2    \* clone_repo / fetch_file_sparse calls in one run
MaxGhCalls  == 3    \* require_gh calls / _gh_path accesses in one run
NumThreads  == 2    \* threads calling require_gh
MaxExtra    == 1    \* extra "/x" segments in a nameWithOwner answered by gh
MaxRepos    == 2    \* GithubRepo constructions in one run

-----------------------------------------------------------------------------
(* Python str primitives.                                                  *)

\* str.isspace() characters of the model's alphabet: what str.strip() removes.
Whitespace == {" ", "\t", "\n", "\r"}

\* urllib.parse._WHATWG_C0_CONTROL_OR_SPACE restricted to the alphabet.
C0ControlOrSpace == {" ", "\t", "\n", "\r"}

\* urllib.parse._UNSAFE_URL_BYTES_TO_REMOVE
UnsafeUrlBytes == {"\t", "\r", "\n"}

LowerLetters == {"a","b","c","d","e","f","g","h","i","j","k","l","m",
                 "n","o","p","q","r","s","t","u","v","w","x","y","z"}
UpperLetters == {"A","B","C","D","E","F","G","H","I","J","K","L","M",
                 "N","O","P","Q","R","S","T","U","V","W","X","Y","Z"}
Digits       == {"0","1","2","3","4","5","6","7","8","9"}

\* urllib.parse.scheme_chars
SchemeChars == LowerLetters \cup UpperLetters \cup Digits \cup {"+", "-", "."}

UpperSeq == <<"A","B","C","D","E","F","G","H","I","J","K","L","M",
              "N","O","P","Q","R","S","T","U","V","W","X","Y","Z">>
LowerSeq == <<"a","b","c","d","e","f","g","h","i","j","k","l","m",
              "n","o","p","q","r","s","t","u","v","w","x","y","z">>

LowerChar(c) ==
    IF c \in UpperLetters
    THEN LowerSeq[CHOOSE i \in 1..26 : UpperSeq[i] = c]
    ELSE c

\* str.lower()
Lower(s) == [i \in 1..Len(s) |-> LowerChar(s[i])]

\* s.startswith(p), s.endswith(p)
StartsWith(s, p) == Len(s) >= Len(p) /\ SubSeq(s, 1, Len(p)) = p
EndsWith(s, p)   == Len(s) >= Len(p) /\ SubSeq(s, Len(s) - Len(p) + 1, Len(s)) = p

\* c in s
Contains(s, c) == \E i \in 1..Len(s) : s[i] = c

\* s.find(c) + 1: the 1-based index of the first c in s, 0 when there is none
Find(s, c) ==
    IF Contains(s, c)
    THEN CHOOSE i \in 1..Len(s) : s[i] = c /\ \A j \in 1..(i - 1) : s[j] # c
    ELSE 0

\* s.rfind(c) + 1
RFind(s, c) ==
    IF Contains(s, c)
    THEN CHOOSE i \in 1..Len(s) : s[i] = c /\ \A j \in (i + 1)..Len(s) : s[j] # c
    ELSE 0

\* the 1-based index of the first character of s that is in set S, 0 when none
FindAny(s, S) ==
    IF \E i \in 1..Len(s) : s[i] \in S
    THEN CHOOSE i \in 1..Len(s) : s[i] \in S /\ \A j \in 1..(i - 1) : s[j] \notin S
    ELSE 0

\* s.lstrip(chars), s.rstrip(chars), s.strip(chars) for a set of characters
LStrip(s, S) ==
    IF \A i \in 1..Len(s) : s[i] \in S
    THEN <<>>
    ELSE SubSeq(s, CHOOSE i \in 1..Len(s) :
                      s[i] \notin S /\ \A j \in 1..(i - 1) : s[j] \in S, Len(s))
RStrip(s, S) ==
    IF \A i \in 1..Len(s) : s[i] \in S
    THEN <<>>
    ELSE SubSeq(s, 1, CHOOSE i \in 1..Len(s) :
                         s[i] \notin S /\ \A j \in (i + 1)..Len(s) : s[j] \in S)
Strip(s, S) == RStrip(LStrip(s, S), S)

\* s.replace(c, "") for each c in S
RemoveChars(s, S) == SelectSeq(s, LAMBDA c : c \notin S)

\* s.replace(old, new) for a one-character old
ReplaceChar(s, old, new) == [i \in 1..Len(s) |-> IF s[i] = old THEN new ELSE s[i]]

\* s.replace(old, ""): the non-overlapping occurrences of old, left to right
RECURSIVE RemoveSub(_, _)
RemoveSub(s, old) ==
    IF Len(s) < Len(old) \/ old = <<>> THEN s
    ELSE IF StartsWith(s, old)
         THEN RemoveSub(SubSeq(s, Len(old) + 1, Len(s)), old)
         ELSE <<s[1]>> \o RemoveSub(Tail(s), old)

\* s.split(c, 1): one part when c is not in s, else the parts around the first c
Split1(s, c) ==
    IF Contains(s, c)
    THEN <<SubSeq(s, 1, Find(s, c) - 1), SubSeq(s, Find(s, c) + 1, Len(s))>>
    ELSE <<s>>

\* Optional[str]
None    == [tag |-> "none", s |-> <<>>, b |-> FALSE]
Some(s) == [tag |-> "str",  s |-> s,    b |-> FALSE]
Bool(b) == [tag |-> "bool", s |-> <<>>, b |-> b]

\* `x or None` for a str x
OrNone(s) == IF s = <<>> THEN None ELSE Some(s)

-----------------------------------------------------------------------------
(* String literals of the source.                                          *)

DotGit    == <<".", "g", "i", "t">>
GitAt     == <<"g", "i", "t", "@">>
Ssh       == <<"s", "s", "h">>
Http      == <<"h", "t", "t", "p">>
Https     == <<"h", "t", "t", "p", "s">>
HttpsSep  == <<"h", "t", "t", "p", "s", ":", "/", "/">>
GithubCom == <<"g", "i", "t", "h", "u", "b", ".", "c", "o", "m">>
HttpsGithub == HttpsSep \o GithubCom \o <<"/">>
GitAtGithub == GitAt \o GithubCom \o <<":">>

-----------------------------------------------------------------------------
(* urllib.parse.urlparse, as far as url_utils.py reads its result.         *)

\* urllib.parse.uses_params
UsesParams ==
    { <<>>, <<"f","t","p">>, <<"h","d","l">>,
      <<"p","r","o","s","p","e","r","o">>, Http, <<"i","m","a","p">>, Https,
      <<"s","h","t","t","p">>, <<"r","t","s","p">>, <<"r","t","s","p","s">>,
      <<"r","t","s","p","u">>, <<"s","i","p">>, <<"s","i","p","s">>,
      <<"m","m","s">>, <<"s","f","t","p">>, <<"t","e","l">> }

\* _splitparams(url)[0]
SplitParamsPath(url) ==
    IF Contains(url, "/")
    THEN LET r == RFind(url, "/")
             k == Find(SubSeq(url, r, Len(url)), ";")
         IN  IF k = 0 THEN url ELSE SubSeq(url, 1, r + k - 2)
    ELSE SubSeq(url, 1, Find(url, ";") - 1)

\* SplitResult.hostname; <<>> stands for None (the code only reads it as
\* `parsed.hostname or parsed.netloc`)
Hostname(netloc) ==
    LET at       == RFind(netloc, "@")
        hostinfo == SubSeq(netloc, at + 1, Len(netloc))
    IN  Lower(Split1(hostinfo, ":")[1])

UrlParse(url) ==
    LET u0     == RemoveChars(LStrip(url, C0ControlOrSpace), UnsafeUrlBytes)
        i      == Find(u0, ":")
        hasSch == /\ i > 1
                  /\ u0[1] \in LowerLetters \cup UpperLetters
                  /\ \A j \in 1..(i - 1) : u0[j] \in SchemeChars
        scheme == IF hasSch THEN Lower(SubSeq(u0, 1, i - 1)) ELSE <<>>
        u1     == IF hasSch THEN SubSeq(u0, i + 1, Len(u0)) ELSE u0
        hasNet == StartsWith(u1, <<"/", "/">>)
        after  == SubSeq(u1, 3, Len(u1))
        d      == FindAny(after, {"/", "?", "#"})
        netloc == IF ~hasNet THEN <<>>
                  ELSE IF d = 0 THEN after ELSE SubSeq(after, 1, d - 1)
        u2     == IF ~hasNet THEN u1
                  ELSE IF d = 0 THEN <<>> ELSE SubSeq(after, d, Len(after))
        u3     == Split1(u2, "#")[1]
        u4     == Split1(u3, "?")[1]
        path   == IF scheme \in UsesParams /\ Contains(u4, ";")
                  THEN SplitParamsPath(u4) ELSE u4
    IN  [scheme |-> scheme, netloc |-> netloc, path |-> path,
         hostname |-> Hostname(netloc)]

\* parsed.hostname or parsed.netloc
HostnameOrNetloc(parsed) ==
    IF parsed.hostname # <<>> THEN parsed.hostname ELSE parsed.netloc

-----------------------------------------------------------------------------
(* url_utils.py                                                            *)

\* a slip in the slice: url[:-3] leaves the dot behind
strip_git_suffix_short(url) ==
    IF EndsWith(url, DotGit) THEN SubSeq(url, 1, Len(url) - 3) ELSE url

strip_git_suffix(url) ==
    IF EndsWith(url, DotGit) THEN SubSeq(url, 1, Len(url) - 4) ELSE url

ensure_git_suffix(url) == strip_git_suffix(url) \o DotGit

is_ssh_url(repo_url) ==
    IF StartsWith(repo_url, GitAt) THEN TRUE
    ELSE UrlParse(repo_url).scheme = Ssh

\* to_ssh_url, the part after `if is_ssh_url(repo_url):`
to_ssh_url_from_ssh(repo_url) ==
    IF StartsWith(repo_url, GitAt) THEN ensure_git_suffix(repo_url)
    ELSE LET parsed     == UrlParse(repo_url)
             host       == HostnameOrNetloc(parsed)
             owner_repo == strip_git_suffix(LStrip(parsed.path, {"/"}))
         IN  GitAt \o host \o <<":">> \o owner_repo \o DotGit

\* to_ssh_url, https or bare
to_ssh_url_from_other(repo_url) ==
    LET parsed == UrlParse(repo_url) IN
    IF parsed.netloc # <<>> /\ parsed.path # <<>>
    THEN LET host       == parsed.netloc
             owner_repo == strip_git_suffix(LStrip(parsed.path, {"/"}))
         IN  GitAt \o host \o <<":">> \o owner_repo \o DotGit
    ELSE LET owner_repo ==
                 strip_git_suffix(LStrip(Strip(repo_url, Whitespace), {"/"}))
         IN  IF Contains(owner_repo, "/")
             THEN GitAtGithub \o owner_repo \o DotGit
             ELSE ensure_git_suffix(repo_url)

to_ssh_url(repo_url) ==
    IF is_ssh_url(repo_url)
    THEN to_ssh_url_from_ssh(repo_url)
    ELSE to_ssh_url_from_other(repo_url)

\* to_https_url, the part under `if not is_ssh_url(repo_url):`
to_https_url_from_other(repo_url) ==
    LET parsed == UrlParse(repo_url) IN
    IF parsed.netloc # <<>> /\ parsed.scheme \in {Http, Https}
    THEN ensure_git_suffix(repo_url)
    ELSE LET owner_repo ==
                 strip_git_suffix(LStrip(Strip(repo_url, Whitespace), {"/"}))
         IN  IF Contains(owner_repo, "/")
             THEN HttpsGithub \o owner_repo \o DotGit
             ELSE ensure_git_suffix(repo_url)

\* to_https_url, `if repo_url.startswith("git@"):`
to_https_url_from_scp(repo_url) ==
    LET host_path == Split1(repo_url, ":") IN
    IF Len(host_path) = 2
    THEN LET host       == RemoveSub(host_path[1], GitAt)
             owner_repo == strip_git_suffix(host_path[2])
         IN  HttpsSep \o host \o <<"/">> \o owner_repo \o DotGit
    ELSE ensure_git_suffix(repo_url)

\* to_https_url, the ssh:// form
to_https_url_from_ssh(repo_url) ==
    LET parsed == UrlParse(repo_url) IN
    IF parsed.netloc # <<>> /\ parsed.path # <<>>
    THEN LET host       == HostnameOrNetloc(parsed)
             owner_repo == strip_git_suffix(LStrip(parsed.path, {"/"}))
         IN  HttpsSep \o host \o <<"/">> \o owner_repo \o DotGit
    ELSE ensure_git_suffix(repo_url)

to_https_url(repo_url) ==
    IF ~is_ssh_url(repo_url) THEN to_https_url_from_other(repo_url)
    ELSE IF StartsWith(repo_url, GitAt) THEN to_https_url_from_scp(repo_url)
    ELSE to_https_url_from_ssh(repo_url)

https_repo_full_name(repo_url) ==
    LET u == Strip(repo_url, Whitespace) IN
    IF StartsWith(u, GitAt)
    THEN LET parts == Split1(u, ":") IN
         IF Len(parts) = 2
         THEN OrNone(Strip(strip_git_suffix(parts[2]), {"/"}))
         ELSE None      \* unpacking one part raises ValueError, caught
    ELSE LET parsed == UrlParse(u) IN
         IF parsed.netloc # <<>> /\ parsed.path # <<>>
         THEN OrNone(strip_git_suffix(Strip(parsed.path, {"/"})))
         ELSE OrNone(strip_git_suffix(Strip(u, {"/"})))

-----------------------------------------------------------------------------
(* The references the url_utils functions are called on: bare owner/name,  *)
(* http(s):// and ssh:// URLs, and scp-style git@host:path, each with      *)
(* optional blanks around it, extra slashes around the path, repeated      *)
(* ".git" suffixes, user and port in the authority, and missing parts.     *)

RECURSIVE Repeat(_, _)
Repeat(s, k) == IF k = 0 THEN <<>> ELSE s \o Repeat(s, k - 1)

Pads        == { Repeat(<<" ">>, k) : k \in 0..MaxPad }
Slashes     == { Repeat(<<"/">>, k) : k \in 0..MaxSlashes }
GitSuffixes == { Repeat(DotGit, k) : k \in 0..MaxGit }
Hosts       == { <<>>, <<"h">>, <<"H">> }
Users       == { <<>>, GitAt }
Ports       == { <<>>, <<":", "2">> }
Schemes     == { Http, Https, Ssh }
Paths       == { <<>>, <<"o">>, <<"o", "/", "n">> }

PathParts == { a \o p \o g \o z :
                 a \in Slashes, p \in Paths, g \in GitSuffixes, z \in Slashes }
Tails(sep) == { <<>> } \cup { sep \o pp : pp \in PathParts }

\* owner and name spellings for the bare form owner/name
Owners == { <<"o">>, <<"g", "i", "t">>, <<"s", "s", "h">>, <<"O", "-", "1">>, <<".">> }
Names  == { <<"n">>, <<"g", "i", "t">>, <<"n", ".", "g", "i">>,
            <<".", "g", "i", "t", "x">>, <<"N", "_", "2">> }

BareRefs == PathParts \cup
            { o \o <<"/">> \o n \o g : o \in Owners, n \in Names, g \in GitSuffixes }
UrlRefs  == { sc \o <<":", "/", "/">> \o u \o h \o pt \o t :
                sc \in Schemes, u \in Users, h \in Hosts, pt \in Ports,
                t \in Tails(<<"/">>) }
ScpRefs  == { GitAt \o h \o t : h \in Hosts, t \in Tails(<<":">>) }

Refs == { a \o r \o z : a \in Pads, z \in Pads,
                        r \in BareRefs \cup UrlRefs \cup ScpRefs }

-----------------------------------------------------------------------------
(* api.py: GithubApi.build_repo_url and sanitize_repo_name                 *)

\* a slip in the order: name.replace(" ", "-").strip()
sanitize_repo_name_replace_first(nm) == Strip(ReplaceChar(nm, " ", "-"), Whitespace)

\* name.strip().replace(" ", "-")
sanitize_repo_name(nm) == ReplaceChar(Strip(nm, Whitespace), " ", "-")

\* the outcome of a call: the value returned, or the exception raised
NotBuilt       == [fn |-> "none", raised |-> "", val |-> <<>>]
Returned(f, v) == [fn |-> f, raised |-> "", val |-> v]
Raised(f, e)   == [fn |-> f, raised |-> e, val |-> <<>>]

build_repo_url(ow, nm) ==
    LET sanitized_repo_name == sanitize_repo_name(nm) IN
    IF ow = <<>> \/ sanitized_repo_name = <<>>
    THEN Raised("build_repo_url", "ValueError")
    ELSE Returned("build_repo_url",
                  HttpsGithub \o ow \o <<"/">> \o sanitized_repo_name \o DotGit)

\* the arguments build_repo_url is called with
NameAlphabet == {"r", " ", "\t"}
NameArgs  == UNION { [1..k -> NameAlphabet] : k \in 0..MaxNameLen }
OwnerArgs == { <<>>, <<"a">>, <<" ">> }

-----------------------------------------------------------------------------
(* api.py GithubRepo.clone_repo and fetch_ssh.py fetch_file_sparse: the     *)
(* directories they work in.  temp_mgr.make_dir hands out a fresh           *)
(* directory; temp_mgr.cleanup(d) is recorded in `cleaned`.                 *)

\* what shutil.which("gh") returns when gh is installed
GhBinary == <<"/", "g", "h">>

NoDir     == [kind |-> "none", id |-> 0]
CallerDir == [kind |-> "caller", id |-> 0]      \* a dest_path of the caller
TempDir(n) == [kind |-> "temp", id |-> n]       \* the n-th make_dir result

NoCall == [op |-> "none", dest |-> "None", callback |-> "None",
           created_temp |-> FALSE, tmp |-> NoDir]

\* dest_path: None, the empty string, or a path
DestPaths == {"None", "", "path"}

\* callback: None, a callable whose bool() is False, or any other callable;
\* `callback is None` tells the first from the others, `if callback:` the
\* last from the others
Callbacks == {"None", "falsy callable", "callable"}

\* clone_repo up to `target = dest_path or self.api.temp_mgr.make_dir(...)`
CloneRepo(dest, cb) ==
    /\ pc = "idle"
    /\ repo.state = "constructed"      \* a method of a GithubRepo
    /\ repoPc.at = "idle"
    /\ calls < MaxCalls
    /\ calls' = calls + 1
    /\ IF dest = "None" /\ cb = "None"
       THEN /\ call' = [op |-> "clone_repo", dest |-> dest, callback |-> cb,
                        created_temp |-> FALSE, tmp |-> NoDir]
            /\ exit' = "raised ValueError"
            /\ pc' = "idle"
            /\ target' = NoDir
            /\ UNCHANGED <<made, cleaned>>
       ELSE LET fresh == dest \in {"None", ""}      \* `dest_path or make_dir()`
                dir   == IF fresh THEN TempDir(made + 1) ELSE CallerDir
            IN  /\ call' = [op |-> "clone_repo", dest |-> dest, callback |-> cb,
                            created_temp |-> (dest = "None"),
                            tmp |-> IF fresh THEN dir ELSE NoDir]
                /\ made' = IF fresh THEN made + 1 ELSE made
                /\ target' = dir
                /\ exit' = "running"
                /\ pc' = "clone_gh_path"
                /\ UNCHANGED cleaned
    /\ UNCHANGED <<urlVars, buildVars, apiVars>>

\* self.api._gh_path while building cmd: require_gh returns the cached path,
\* which the constructor of this GithubRepo left in _GH_PATH
CloneGhPath ==
    /\ pc = "clone_gh_path"
    /\ ghPath # <<>>
    /\ ghCalls' = ghCalls + 1
    /\ pc' = "clone_run"
    /\ UNCHANGED <<call, target, made, cleaned, exit, calls,
                   ghPath, ghThread, ghChecks, ghLast,
                   repoVars, pushVars, urlVars, buildVars>>

\* self.api._run(cmd): it returns with a returncode or subprocess.run raises
\* (the timeout ran out, the gh binary is gone); then the branches on
\* result.returncode without callback
CloneRun(result) ==
    /\ pc = "clone_run"
    /\ CASE result \in {"TimeoutExpired", "FileNotFoundError"} ->
              /\ pc' = "idle"
              /\ exit' = "raised " \o result
              /\ UNCHANGED cleaned
         [] result = "returncode 0" ->
              /\ IF call.callback = "callable"       \* `if callback:`
                 THEN pc' = "clone_callback" /\ UNCHANGED exit
                 ELSE pc' = "idle" /\ exit' = "returned target"
              /\ UNCHANGED cleaned
         [] OTHER ->
              /\ pc' = "idle"
              /\ exit' = "returned False"
              /\ cleaned' = IF call.created_temp THEN cleaned \cup {target}
                            ELSE cleaned
    /\ UNCHANGED <<call, target, made, calls, urlVars, buildVars, apiVars>>

\* try: return callback(target) finally: if created_temp: cleanup(target)
CloneCallback(raises) ==
    /\ pc = "clone_callback"
    /\ cleaned' = IF call.created_temp THEN cleaned \cup {target} ELSE cleaned
    /\ exit' = IF raises THEN "raised from callback" ELSE "returned callback result"
    /\ pc' = "idle"
    /\ UNCHANGED <<call, target, made, calls, urlVars, buildVars, apiVars>>

\* GithubRepo.cleanup_temp(path): self.api.temp_mgr.cleanup(path)
CleanupTemp(path) ==
    /\ pc = "idle"
    /\ repo.state = "constructed"      \* a method of a GithubRepo
    /\ repoPc.at = "idle"
    /\ path \notin cleaned
    /\ cleaned' = cleaned \cup {path}
    /\ UNCHANGED <<pc, call, target, made, exit, calls, urlVars, buildVars, apiVars>>

\* fetch_file_sparse: temp_dir = temp_mgr.make_dir(prefix="git")
FetchFileSparse ==
    /\ pc = "idle"
    /\ repoPc.at = "idle"
    /\ calls < MaxCalls
    /\ calls' = calls + 1
    /\ call' = [op |-> "fetch_file_sparse", dest |-> "None", callback |-> "None",
                created_temp |-> TRUE, tmp |-> TempDir(made + 1)]
    /\ made' = made + 1
    /\ target' = TempDir(made + 1)
    /\ exit' = "running"
    /\ pc' = "git clone"
    /\ UNCHANGED <<cleaned, urlVars, buildVars, apiVars>>

\* the four subprocess.run calls of the try block, in order
FetchSteps == <<"git clone", "git sparse-checkout init",
                "git sparse-checkout set", "git checkout", "read file">>

NextFetchStep(step) ==
    FetchSteps[(CHOOSE i \in 1..Len(FetchSteps) : FetchSteps[i] = step) + 1]

\* one subprocess.run(..., check=True): it returns, raises CalledProcessError,
\* or raises another exception; both except clauses return None, and
\* finally: temp_mgr.cleanup(temp_dir)
FetchGit(outcome) ==
    /\ pc \in {"git clone", "git sparse-checkout init",
               "git sparse-checkout set", "git checkout"}
    /\ IF outcome = "ok"
       THEN /\ pc' = NextFetchStep(pc)
            /\ UNCHANGED <<exit, cleaned>>
       ELSE /\ pc' = "idle"
            /\ exit' = "returned None"
            /\ cleaned' = cleaned \cup {target}
    /\ UNCHANGED <<call, target, made, calls, urlVars, buildVars, apiVars>>

\* with open(target, "rb") as f: return f.read(), then the finally clause
FetchRead(readable) ==
    /\ pc = "read file"
    /\ pc' = "idle"
    /\ exit' = IF readable THEN "returned bytes" ELSE "returned None"
    /\ cleaned' = cleaned \cup {target}
    /\ UNCHANGED <<call, target, made, calls, urlVars, buildVars, apiVars>>

-----------------------------------------------------------------------------
(* api.py GithubApi.require_gh and the _gh_path property.  Several threads  *)
(* may be inside require_gh at once; each statement that reads or writes    *)
(* the class attribute _GH_PATH, and each external command, is one step.    *)

Threads == 1..NumThreads

\* `if cls._GH_PATH: return cls._GH_PATH`; both the classmethod and the
\* _gh_path property (which only calls it) enter here
RequireGh(t) ==
    /\ ghThread[t] = "idle"
    /\ ghCalls < MaxGhCalls
    /\ ghCalls' = ghCalls + 1
    /\ IF ghPath # <<>>
       THEN /\ ghLast' = [ghLast EXCEPT ![t] = "returned cached path"]
            /\ UNCHANGED ghThread
       ELSE /\ ghThread' = [ghThread EXCEPT ![t] = "which"]
            /\ ghLast' = [ghLast EXCEPT ![t] = "running"]
    /\ UNCHANGED <<ghPath, ghChecks, repoVars, pushVars, urlVars, buildVars, cloneVars>>

\* gh_path = shutil.which("gh"); if not gh_path: raise ADHDError
GhWhich(t, found) ==
    /\ ghThread[t] = "which"
    /\ IF found
       THEN ghThread' = [ghThread EXCEPT ![t] = "version"] /\ UNCHANGED ghLast
       ELSE /\ ghThread' = [ghThread EXCEPT ![t] = "idle"]
            /\ ghLast' = [ghLast EXCEPT ![t] = "raised ADHDError"]
    /\ UNCHANGED <<ghPath, ghChecks, ghCalls, repoVars, pushVars, urlVars, buildVars, cloneVars>>

\* subprocess.run([gh_path, "--version"]); returncode != 0 raises ADHDError
GhVersion(t, ok) ==
    /\ ghThread[t] = "version"
    /\ IF ok
       THEN ghThread' = [ghThread EXCEPT ![t] = "auth"] /\ UNCHANGED ghLast
       ELSE /\ ghThread' = [ghThread EXCEPT ![t] = "idle"]
            /\ ghLast' = [ghLast EXCEPT ![t] = "raised ADHDError"]
    /\ UNCHANGED <<ghPath, ghChecks, ghCalls, repoVars, pushVars, urlVars, buildVars, cloneVars>>

\* subprocess.run([gh_path, "auth", "status", ...]); returncode != 0 raises
GhAuthStatus(t, ok) ==
    /\ ghThread[t] = "auth"
    /\ ghChecks' = ghChecks + 1
    /\ IF ok
       THEN ghThread' = [ghThread EXCEPT ![t] = "store"] /\ UNCHANGED ghLast
       ELSE /\ ghThread' = [ghThread EXCEPT ![t] = "idle"]
            /\ ghLast' = [ghLast EXCEPT ![t] = "raised ADHDError"]
    /\ UNCHANGED <<ghPath, ghCalls, repoVars, pushVars, urlVars, buildVars, cloneVars>>

\* cls._GH_PATH = gh_path; return gh_path
GhStore(t) ==
    /\ ghThread[t] = "store"
    /\ ghPath' = GhBinary
    /\ ghThread' = [ghThread EXCEPT ![t] = "idle"]
    /\ ghLast' = [ghLast EXCEPT ![t] = "returned checked path"]
    /\ UNCHANGED <<ghChecks, ghCalls, repoVars, pushVars, urlVars, buildVars, cloneVars>>

-----------------------------------------------------------------------------
(* api.py GithubRepo.__init__ with _resolve_repo_metadata,                  *)
(* _canonical_repo_name and _split_name_with_owner.  What `gh repo view`    *)
(* answers is an input: the command fails, times out, prints nothing,       *)
(* prints no JSON, prints JSON that is no object, or prints an object whose *)
(* name_with_owner is null or a string.                                     *)

\* an exception leaving a function, or its value
Raise(e)  == [raised |-> e, val |-> None, branch |-> None]
Value(v)  == [raised |-> "", val |-> v, branch |-> None]

\* _split_name_with_owner(value), value None or a str
split_name_with_owner(value) ==
    IF value.tag # "str" \/ value.s = <<>> \/ ~Contains(value.s, "/")
    THEN [raised |-> "ValueError", owner |-> <<>>, repo_name |-> <<>>]
    ELSE LET parts     == Split1(value.s, "/")
             owner_    == Strip(parts[1], Whitespace)
             repo_name == Strip(parts[2], Whitespace)
         IN  IF owner_ = <<>> \/ repo_name = <<>>
             THEN [raised |-> "ValueError", owner |-> <<>>, repo_name |-> <<>>]
             ELSE [raised |-> "", owner |-> owner_, repo_name |-> repo_name]

\* _canonical_repo_name(api, url) when `gh repo view --jq .nameWithOwner`
\* answers `answer`
canonical_repo_name(answer) ==
    IF answer.kind = "TimeoutExpired" THEN Raise("TimeoutExpired")
    ELSE IF answer.kind = "ok" /\ Strip(answer.stdout, Whitespace) # <<>>
         THEN Value(Some(Strip(answer.stdout, Whitespace)))
         ELSE Raise("ValueError")

\* a dict {"name_with_owner": ..., "branch": ...} or the exception
Metadata(nwo, br) == [raised |-> "", val |-> nwo, branch |-> br]

\* the three places that return the fallback dict
FallbackMetadata(answer, branch_override) ==
    LET c == canonical_repo_name(answer) IN
    IF c.raised # "" THEN c ELSE Metadata(c.val, branch_override)

\* _resolve_repo_metadata(api, url, branch_override): view is the answer to the
\* metadata query, first and second the answers to the canonical-name queries
\* made after it (the second only from the except clause)
resolve_repo_metadata(branch_override, view, first, second) ==
    IF branch_override.tag = "str" /\ branch_override.s # <<>>
    THEN FallbackMetadata(first, branch_override)
    ELSE CASE view.kind = "TimeoutExpired" -> Raise("TimeoutExpired")
           [] view.kind \in {"failed", "empty"} ->
                  FallbackMetadata(first, branch_override)
           [] view.kind \in {"unparseable", "not an object"} ->
                  \* json.loads or parsed.get raises inside the try block
                  FallbackMetadata(first, branch_override)
           [] OTHER ->
                  IF view.nwo.tag = "str" /\ view.nwo.s # <<>>
                  THEN Metadata(view.nwo, view.branch)
                  ELSE LET c == canonical_repo_name(first) IN
                       IF c.raised # ""
                       THEN \* caught by `except Exception`, which asks again
                            FallbackMetadata(second, branch_override)
                       ELSE Metadata(c.val, view.branch)

NotConstructed == [state |-> "none", owner |-> <<>>, repo_name |-> <<>>,
                   repo_full_name |-> None, branch |-> None, url |-> <<>>]
Failed(e)      == [NotConstructed EXCEPT !.state = e]

\* GithubRepo.__init__
github_repo_init(url, branch, gh_ok, view, first, second) ==
    LET clean_url == Strip(url, Whitespace) IN
    IF clean_url = <<>> THEN Failed("raised ValueError")
    ELSE IF ~gh_ok THEN Failed("raised ADHDError")     \* api._gh_path
    ELSE LET metadata == resolve_repo_metadata(branch, view, first, second) IN
         IF metadata.raised # "" THEN Failed("raised " \o metadata.raised)
         ELSE LET split == split_name_with_owner(metadata.val) IN
              IF split.raised # "" THEN Failed("raised " \o split.raised)
              ELSE [state |-> "constructed", owner |-> split.owner,
                    repo_name |-> split.repo_name,
                    repo_full_name |-> metadata.val,
                    branch |-> metadata.branch, url |-> clean_url]

\* the arguments and answers GithubRepo is constructed with
RepoUrls == { <<>>, <<" ">>, <<"o", "/", "n">>, <<" ", "o", "/", "n", " ">> }
Branches == { None, Some(<<>>), Some(<<"b">>) }
NameWithOwners ==
    { <<>>, <<" ">>, <<"o">>, <<"/", "n">>, <<"o", "/">>, <<" ", "/", " ">>,
      <<"o", "/", "/", "n">>, <<" ", "o", " ", "/", " ", "n", "\n">> } \cup
    { <<"o", "/", "n">> \o Repeat(<<"/", "x">>, k) : k \in 0..MaxExtra }
ViewAnswers ==
    { [kind |-> k, nwo |-> None, branch |-> None] :
        k \in {"failed", "TimeoutExpired", "empty", "unparseable", "not an object"} }
    \cup { [kind |-> "object", nwo |-> v, branch |-> b] :
             v \in {None} \cup { Some(x) : x \in NameWithOwners },
             b \in {None, Some(<<"m">>)} }
CanonicalAnswers ==
    { [kind |-> k, stdout |-> <<>>] : k \in {"failed", "TimeoutExpired"} }
    \cup { [kind |-> "ok", stdout |-> x] : x \in NameWithOwners }

NoRepoArgs == [url |-> <<>>, branch |-> None, gh_ok |-> TRUE,
               view |-> [kind |-> "failed", nwo |-> None, branch |-> None],
               first |-> [kind |-> "failed", stdout |-> <<>>],
               second |-> [kind |-> "failed", stdout |-> <<>>]]

\* `if branch_override:` and `if not parsed.get("name_with_owner")`
Truthy(v) == v.tag = "str" /\ v.s # <<>>

\* the first gh command of _resolve_repo_metadata
FirstCommand(branch) == IF Truthy(branch) THEN "name" ELSE "view"

\* whether _canonical_repo_name is called after the metadata query answered
NeedsName(view) ==
    \/ view.kind \in {"failed", "empty", "unparseable", "not an object"}
    \/ view.kind = "object" /\ ~Truthy(view.nwo)

\* whether the except clause calls _canonical_repo_name once more: the call
\* inside the try block raised
NeedsNameAgain(args) ==
    /\ ~Truthy(args.branch)
    /\ args.view.kind = "object"
    /\ canonical_repo_name(args.first).raised # ""

RepoAt(a, c) == [at |-> a, cmd |-> c]

Constructed(args) ==
    github_repo_init(args.url, args.branch, args.gh_ok,
                     args.view, args.first, args.second)

\* GithubApi.repo(url, branch) / GithubRepo(api, url=url, branch=branch), up
\* to the first api._gh_path
NewGithubRepo(url, branch) ==
    /\ repoPc = RepoAt("idle", "none")
    /\ pc = "idle"
    /\ repoCount < MaxRepos
    /\ repoCount' = repoCount + 1
    /\ repoArgs' = [NoRepoArgs EXCEPT !.url = url, !.branch = branch]
    /\ IF Strip(url, Whitespace) = <<>>
       THEN /\ repo' = Constructed(repoArgs')
            /\ UNCHANGED repoPc
       ELSE /\ repo' = NotConstructed
            /\ repoPc' = RepoAt("gh_path", FirstCommand(branch))
    /\ UNCHANGED <<ghVars, pushVars, urlVars, buildVars, cloneVars>>

\* api._gh_path while building cmd: require_gh tests the cached path
RepoGhPath ==
    /\ repoPc.at = "gh_path"
    /\ ghCalls' = ghCalls + 1
    /\ repoPc' = RepoAt(IF ghPath # <<>> THEN "run" ELSE "which", repoPc.cmd)
    /\ UNCHANGED <<repoArgs, repo, repoCount, ghPath, ghThread, ghChecks, ghLast,
                   pushVars, urlVars, buildVars, cloneVars>>

\* require_gh raising ADHDError out of __init__
RepoGhFailed ==
    /\ repoArgs' = [repoArgs EXCEPT !.gh_ok = FALSE]
    /\ repo' = Constructed(repoArgs')
    /\ repoPc' = RepoAt("idle", "none")

\* require_gh: gh_path = shutil.which("gh"); if not gh_path: raise ADHDError
RepoGhWhich(found) ==
    /\ repoPc.at = "which"
    /\ IF found
       THEN /\ repoPc' = RepoAt("version", repoPc.cmd)
            /\ UNCHANGED <<repoArgs, repo>>
       ELSE RepoGhFailed
    /\ UNCHANGED <<repoCount, ghVars, pushVars, urlVars, buildVars, cloneVars>>

\* require_gh: subprocess.run([gh_path, "--version"])
RepoGhVersion(ok) ==
    /\ repoPc.at = "version"
    /\ IF ok
       THEN /\ repoPc' = RepoAt("auth", repoPc.cmd)
            /\ UNCHANGED <<repoArgs, repo>>
       ELSE RepoGhFailed
    /\ UNCHANGED <<repoCount, ghVars, pushVars, urlVars, buildVars, cloneVars>>

\* require_gh: subprocess.run([gh_path, "auth", "status", ...])
RepoGhAuthStatus(ok) ==
    /\ repoPc.at = "auth"
    /\ ghChecks' = ghChecks + 1
    /\ IF ok
       THEN /\ repoPc' = RepoAt("store", repoPc.cmd)
            /\ UNCHANGED <<repoArgs, repo>>
       ELSE RepoGhFailed
    /\ UNCHANGED <<repoCount, ghPath, ghThread, ghCalls, ghLast,
                   pushVars, urlVars, buildVars, cloneVars>>

\* require_gh: cls._GH_PATH = gh_path; return gh_path
RepoGhStore ==
    /\ repoPc.at = "store"
    /\ ghPath' = GhBinary
    /\ repoPc' = RepoAt("run", repoPc.cmd)
    /\ UNCHANGED <<repoArgs, repo, repoCount, ghThread, ghChecks, ghCalls, ghLast,
                   pushVars, urlVars, buildVars, cloneVars>>

\* _resolve_repo_metadata: result = api._run(cmd) of the metadata query, up
\* to the return or the next api._gh_path
RepoView(answer) ==
    /\ repoPc = RepoAt("run", "view")
    /\ repoArgs' = [repoArgs EXCEPT !.view = answer]
    /\ IF NeedsName(answer)
       THEN /\ repoPc' = RepoAt("gh_path", "name")
            /\ UNCHANGED repo
       ELSE /\ repoPc' = RepoAt("idle", "none")
            /\ repo' = Constructed(repoArgs')
    /\ UNCHANGED <<repoCount, ghVars, pushVars, urlVars, buildVars, cloneVars>>

\* _canonical_repo_name: result = api._run(cmd), up to the end of __init__ or
\* to the api._gh_path of the call in the except clause
RepoName(answer) ==
    /\ repoPc = RepoAt("run", "name")
    /\ repoArgs' = [repoArgs EXCEPT !.first = answer]
    /\ IF NeedsNameAgain(repoArgs')
       THEN /\ repoPc' = RepoAt("gh_path", "name again")
            /\ UNCHANGED repo
       ELSE /\ repoPc' = RepoAt("idle", "none")
            /\ repo' = Constructed(repoArgs')
    /\ UNCHANGED <<repoCount, ghVars, pushVars, urlVars, buildVars, cloneVars>>

\* _canonical_repo_name called from the except clause, and the rest of __init__
RepoNameAgain(answer) ==
    /\ repoPc = RepoAt("run", "name again")
    /\ repoArgs' = [repoArgs EXCEPT !.second = answer]
    /\ repoPc' = RepoAt("idle", "none")
    /\ repo' = Constructed(repoArgs')
    /\ UNCHANGED <<repoCount, ghVars, pushVars, urlVars, buildVars, cloneVars>>

-----------------------------------------------------------------------------
(* api.py GithubApi.push_initial_commit and _run_git.  Every git command is *)
(* a step of its own; what git does is an input: it exits with status 0,    *)
(* exits with another status, or runs past self.timeout, which makes        *)
(* subprocess.run raise TimeoutExpired.                                      *)

GitInit         == "init"
GitAdd          == "add --all"
GitCommit       == "commit -m"
GitBranch       == "branch -M"
GitRemoteAdd    == "remote add origin"
GitRemoteSetUrl == "remote set-url origin"
GitPush         == "push -u origin"
GitSteps == {GitInit, GitAdd, GitCommit, GitBranch, GitRemoteAdd,
             GitRemoteSetUrl, GitPush}

ExitZero    == "returncode 0"
ExitNonZero == "returncode 1"
TimedOut    == "TimeoutExpired"

\* where the call is after a step: the next git step, or how it left
Goes(step)  == [pc |-> step, exit |-> "none"]
Leaves(how) == [pc |-> "left", exit |-> how]

\* the statement after a step whose returncode was 0
StepAfter(step) ==
    CASE step = GitInit         -> Goes(GitAdd)
      [] step = GitAdd          -> Goes(GitCommit)
      [] step = GitCommit       -> Goes(GitBranch)
      [] step = GitBranch       -> Goes(GitRemoteAdd)
      [] step = GitRemoteAdd    -> Goes(GitPush)
      [] step = GitRemoteSetUrl -> Goes(GitPush)
      [] step = GitPush         -> Leaves("returned")

\* the same call with the returncode tests left out
after_git_step_unchecked(step, outcome) ==
    IF outcome = TimedOut THEN Leaves("raised TimeoutExpired")
    ELSE StepAfter(step)

\* push_initial_commit from one _run_git(..., check=False) to the next
after_git_step(step, outcome) ==
    IF outcome = TimedOut THEN Leaves("raised TimeoutExpired")
    ELSE IF outcome = ExitZero THEN StepAfter(step)
    ELSE IF step = GitRemoteAdd THEN Goes(GitRemoteSetUrl)
    ELSE Leaves("raised ADHDError")

PushOwners == { <<>>, <<"a">>, <<"b">>, <<"a", "b">> }
PushNames  == { <<>>, <<" ">>, <<"r">>, <<" ", "r">>, <<"r", " ", "r">> }

\* push_initial_commit(repo_path, owner, name) up to the first git command
PushInitialCommit(is_dir, ow, nm) ==
    /\ pushPc = "idle"
    /\ LET remote_url == build_repo_url(ow, nm) IN
       IF ~is_dir \/ remote_url.raised # ""
       THEN /\ pushPc' = "left"
            /\ pushExit' = "raised ValueError"
            /\ UNCHANGED pushUrl
       ELSE /\ pushPc' = GitInit
            /\ pushUrl' = remote_url.val
            /\ UNCHANGED pushExit
    /\ UNCHANGED <<pushLog, ghVars, repoVars, urlVars, buildVars, cloneVars>>

\* self._run_git([...], cwd=target, check=False) and the test after it
PushGitStep(outcome) ==
    /\ pushPc \in GitSteps
    /\ pushLog' = Append(pushLog, [step |-> pushPc, outcome |-> outcome])
    /\ pushPc' = after_git_step(pushPc, outcome).pc
    /\ pushExit' = after_git_step(pushPc, outcome).exit
    /\ UNCHANGED <<pushUrl, ghVars, repoVars, urlVars, buildVars, cloneVars>>

-----------------------------------------------------------------------------
(* State machines.  Each specification below runs one group of variables   *)
(* and leaves the other groups at their idle values.                       *)

IdleUrl   == ref = <<>> /\ fn = "init" /\ out = None
IdleBuild == owner = <<>> /\ name = <<>> /\ built = NotBuilt
IdleClone == /\ pc = "idle" /\ call = NoCall /\ target = NoDir
             /\ made = 0 /\ cleaned = {} /\ exit = "none" /\ calls = 0

IdleGh    == /\ ghPath = <<>> /\ ghThread = [t \in Threads |-> "idle"]
             /\ ghChecks = 0 /\ ghCalls = 0
             /\ ghLast = [t \in Threads |-> "none"]
IdleRepo  == /\ repoArgs = NoRepoArgs /\ repo = NotConstructed
             /\ repoPc = RepoAt("idle", "none") /\ repoCount = 0
IdlePush  == /\ pushPc = "idle" /\ pushUrl = <<>>
             /\ pushLog = <<>> /\ pushExit = "none"
IdleApi   == IdleGh /\ IdleRepo /\ IdlePush

\* url_utils: a caller picks a reference and calls the functions on it.
Init ==
    /\ ref \in Refs
    /\ fn = "init"
    /\ out = None
    /\ IdleBuild
    /\ IdleClone
    /\ IdleApi

Returns(f, v) ==
    /\ fn' = f
    /\ out' = v
    /\ UNCHANGED <<ref, buildVars, cloneVars, apiVars>>

CallStripGitSuffix    == Returns("strip_git_suffix", Some(strip_git_suffix(ref)))
CallEnsureGitSuffix   == Returns("ensure_git_suffix", Some(ensure_git_suffix(ref)))
CallIsSshUrl          == Returns("is_ssh_url", Bool(is_ssh_url(ref)))
CallToSshUrl          == Returns("to_ssh_url", Some(to_ssh_url(ref)))
CallToHttpsUrl        == Returns("to_https_url", Some(to_https_url(ref)))
CallHttpsRepoFullName == Returns("https_repo_full_name", https_repo_full_name(ref))

Next ==
    \/ CallStripGitSuffix
    \/ CallEnsureGitSuffix
    \/ CallIsSshUrl
    \/ CallToSshUrl
    \/ CallToHttpsUrl
    \/ CallHttpsRepoFullName

Spec == Init /\ [][Next]_vars

\* build_repo_url: a caller picks owner and name and calls the helpers.
InitBuild ==
    /\ owner \in OwnerArgs
    /\ name \in NameArgs
    /\ built = NotBuilt
    /\ IdleUrl
    /\ IdleClone
    /\ IdleApi

CallSanitizeRepoName ==
    /\ built' = Returned("sanitize_repo_name", sanitize_repo_name(name))
    /\ UNCHANGED <<owner, name, urlVars, cloneVars, apiVars>>

CallBuildRepoUrl ==
    /\ built' = build_repo_url(owner, name)
    /\ UNCHANGED <<owner, name, urlVars, cloneVars, apiVars>>

NextBuild ==
    \/ CallSanitizeRepoName
    \/ CallBuildRepoUrl

SpecBuild == InitBuild /\ [][NextBuild]_vars

\* the answers of gh while the GithubRepo that is cloned is constructed
CloneViewAnswers ==
    { v \in ViewAnswers :
        \/ v.kind \in {"failed", "TimeoutExpired"}
        \/ v.kind = "object" /\ v.branch = None
                              /\ v.nwo \in {None, Some(<<"o", "/", "n">>)} }
CloneNameAnswers ==
    { c \in CanonicalAnswers : c.stdout \in {<<>>, <<"o", "/", "n">>} }

\* A GithubRepo is constructed (again, when construction raised), then
\* clone_repo, cleanup_temp and fetch_file_sparse are called one after the
\* other; gh, the commands and the callback end as their environment decides.
InitClone ==
    /\ IdleClone
    /\ IdleUrl
    /\ IdleBuild
    /\ IdleApi

NextClone ==
    \/ /\ repo.state # "constructed"
       /\ \E url \in {<<>>, <<"o", "/", "n">>}, branch \in {None, Some(<<"b">>)} :
             NewGithubRepo(url, branch)
    \/ RepoGhPath
    \/ \E found \in BOOLEAN : RepoGhWhich(found)
    \/ \E ok \in BOOLEAN : RepoGhVersion(ok)
    \/ \E ok \in BOOLEAN : RepoGhAuthStatus(ok)
    \/ RepoGhStore
    \/ \E answer \in CloneViewAnswers : RepoView(answer)
    \/ \E answer \in CloneNameAnswers : RepoName(answer)
    \/ \E answer \in CloneNameAnswers : RepoNameAgain(answer)
    \/ \E dest \in DestPaths, cb \in Callbacks : CloneRepo(dest, cb)
    \/ CloneGhPath
    \/ \E result \in {"returncode 0", "returncode 1", "TimeoutExpired",
                      "FileNotFoundError"} : CloneRun(result)
    \/ \E raises \in BOOLEAN : CloneCallback(raises)
    \/ \E path \in {CallerDir} \cup { TempDir(n) : n \in 1..made } :
           CleanupTemp(path)
    \/ FetchFileSparse
    \/ \E outcome \in {"ok", "CalledProcessError", "Exception"} : FetchGit(outcome)
    \/ \E readable \in BOOLEAN : FetchRead(readable)

SpecClone == InitClone /\ [][NextClone]_vars

\* require_gh / _gh_path: threads call it at any time; gh may be missing,
\* broken or logged out whenever it is looked at.
InitGh ==
    /\ IdleGh
    /\ IdleRepo
    /\ IdlePush
    /\ IdleUrl
    /\ IdleBuild
    /\ IdleClone

NextGh ==
    \/ \E t \in Threads : RequireGh(t)
    \/ \E t \in Threads, found \in BOOLEAN : GhWhich(t, found)
    \/ \E t \in Threads, ok \in BOOLEAN : GhVersion(t, ok)
    \/ \E t \in Threads, ok \in BOOLEAN : GhAuthStatus(t, ok)
    \/ \E t \in Threads : GhStore(t)

SpecGh == InitGh /\ [][NextGh]_vars

\* GithubRepo constructions one after the other: any url and branch, gh
\* missing, broken or logged out, any answers of its queries.
InitRepo ==
    /\ IdleRepo
    /\ IdleGh
    /\ IdlePush
    /\ IdleUrl
    /\ IdleBuild
    /\ IdleClone

NextRepo ==
    \/ \E url \in RepoUrls, branch \in Branches : NewGithubRepo(url, branch)
    \/ RepoGhPath
    \/ \E found \in BOOLEAN : RepoGhWhich(found)
    \/ \E ok \in BOOLEAN : RepoGhVersion(ok)
    \/ \E ok \in BOOLEAN : RepoGhAuthStatus(ok)
    \/ RepoGhStore
    \/ \E answer \in ViewAnswers : RepoView(answer)
    \/ \E answer \in CanonicalAnswers : RepoName(answer)
    \/ \E answer \in CanonicalAnswers : RepoNameAgain(answer)

SpecRepo == InitRepo /\ [][NextRepo]_vars

\* One call of push_initial_commit, with any directory, owner and name and
\* any outcome of each git command.
InitPush ==
    /\ IdlePush
    /\ IdleGh
    /\ IdleRepo
    /\ IdleUrl
    /\ IdleBuild
    /\ IdleClone

NextPush ==
    \/ \E is_dir \in BOOLEAN, ow \in PushOwners, nm \in PushNames :
          PushInitialCommit(is_dir, ow, nm)
    \/ \E outcome \in {ExitZero, ExitNonZero, TimedOut} : PushGitStep(outcome)

SpecPush == InitPush /\ [][NextPush]_vars

-----------------------------------------------------------------------------
(* Claims about url_utils.py, checked under Spec.                          *)

\* The function called last, applied to another reference.
Apply(f, x) ==
    CASE f = "strip_git_suffix"     -> Some(strip_git_suffix(x))
      [] f = "ensure_git_suffix"    -> Some(ensure_git_suffix(x))
      [] f = "is_ssh_url"           -> Bool(is_ssh_url(x))
      [] f = "to_ssh_url"           -> Some(to_ssh_url(x))
      [] f = "to_https_url"         -> Some(to_https_url(x))
      [] f = "https_repo_full_name" -> https_repo_full_name(x)
      [] OTHER                      -> None

Converted == fn \in {"to_ssh_url", "to_https_url"}

\* r is owner + "/" + name with owner and name non-empty and without "/"
IsOwnerSlashName(r) ==
    /\ Len(r) >= 3
    /\ Cardinality({ i \in 1..Len(r) : r[i] = "/" }) = 1
    /\ r[1] # "/"
    /\ r[Len(r)] # "/"

\* the characters of a repository owner or name: letters, digits, ".", "-", "_"
NameChars == LowerLetters \cup UpperLetters \cup Digits \cup {".", "-", "_"}

\* r is owner + "/" + name, both spelled in NameChars, name without a .git suffix
IsPlainOwnerSlashName(r) ==
    /\ IsOwnerSlashName(r)
    /\ \A i \in 1..Len(r) : r[i] \in NameChars \cup {"/"}
    /\ ~EndsWith(r, DotGit)

\* C1 as stated: for every owner and name that are non-empty and without "/",
\* the full name of to_ssh_url(owner/name) and of to_https_url(owner/name) is
\* owner/name again.
C1_RoundTripAnyOwnerName ==
    (Converted /\ IsOwnerSlashName(ref)) => https_repo_full_name(out.s) = Some(ref)

\* C1 amended: the round trip holds when owner and name consist of letters,
\* digits, ".", "-" and "_" and the name does not end in ".git".
C1_RoundTripPlainOwnerName ==
    (Converted /\ IsPlainOwnerSlashName(ref)) => https_repo_full_name(out.s) = Some(ref)

\* a converted plain owner/name whose name only resembles a .git suffix
C1_Witness ==
    /\ fn = "to_https_url"
    /\ ref = <<"O", "-", "1", "/", "n", ".", "g", "i">>
    /\ out = Some(HttpsGithub \o ref \o DotGit)
    /\ https_repo_full_name(out.s) = Some(ref)

\* C2 as stated: both conversions are idempotent on every non-empty input.
C2_IdempotentEverywhere ==
    (Converted /\ ref # <<>>) => Apply(fn, out.s) = out

\* scp-style git@<host>:<path> whose host, once "git@" and the characters
\* urlparse discards are removed, is empty or starts a path, query or fragment:
\* "https://" + host + "/" + path then has no URL authority.
ScpWithoutAuthority(x) ==
    /\ StartsWith(x, GitAt)
    /\ Contains(x, ":")
    /\ LET host == RemoveChars(RemoveSub(Split1(x, ":")[1], GitAt), UnsafeUrlBytes)
       IN  host = <<>> \/ host[1] \in {"/", "?", "#"}

\* The extent of the failure of C2: to_ssh_url is idempotent on every non-empty
\* input, and to_https_url on every non-empty input except the scp-style
\* references without an authority.
IdempotentWithAuthority ==
    /\ (fn = "to_ssh_url" /\ ref # <<>>) => Apply(fn, out.s) = out
    /\ (fn = "to_https_url" /\ ref # <<>> /\ ~ScpWithoutAuthority(ref))
           => Apply(fn, out.s) = out

\* the four URL spellings of owner/name on host h
FormsOf(h, on) ==
    { HttpsSep \o h \o <<"/">> \o on,
      HttpsSep \o h \o <<"/">> \o on \o DotGit,
      Ssh \o <<":", "/", "/">> \o GitAt \o h \o <<"/">> \o on \o DotGit,
      GitAt \o h \o <<":">> \o on \o DotGit }

Normalized(f, h, on) ==
    IF f = "to_ssh_url"
    THEN GitAt \o h \o <<":">> \o on \o DotGit
    ELSE HttpsSep \o h \o <<"/">> \o on \o DotGit

\* C3 as stated: every spelling of owner/name on host h normalizes to
\* git@h:owner/name.git and https://h/owner/name.git, and the bare owner/name
\* to the same with h = github.com.
C3_AllFormsNormalizeAlike ==
    Converted =>
        /\ \A h \in Hosts \ {<<>>} :
               ref \in FormsOf(h, <<"o", "/", "n">>)
                   => out.s = Normalized(fn, h, <<"o", "/", "n">>)
        /\ ref = <<"o", "/", "n">>
               => out.s = Normalized(fn, GithubCom, <<"o", "/", "n">>)

\* s ends with exactly one .git
ExactlyOneGitSuffix(s) ==
    /\ EndsWith(s, DotGit)
    /\ ~EndsWith(SubSeq(s, 1, Len(s) - 4), DotGit)

\* C4 as stated: the result of ensure_git_suffix, and so every URL returned by
\* to_ssh_url and to_https_url, ends with exactly one .git suffix.
C4_ExactlyOneGitSuffix ==
    fn \in {"ensure_git_suffix", "to_ssh_url", "to_https_url"}
        => ExactlyOneGitSuffix(out.s)

\* C5 as stated: is_ssh_url, to_ssh_url, to_https_url and https_repo_full_name
\* return on a reference with blanks around it what they return on the
\* reference without them.
C5_SurroundingWhitespaceIgnored ==
    fn \in {"is_ssh_url", "to_ssh_url", "to_https_url", "https_repo_full_name"}
        => out = Apply(fn, Strip(ref, Whitespace))

\* references whose path portion is empty: blank, a URL with an authority and
\* no path or the path "/", scp-style without a colon or with nothing after it
EmptyPathRefs ==
    { <<>> } \cup
    { sc \o <<":", "/", "/">> \o u \o h \o pt \o t :
        sc \in Schemes, u \in Users, h \in Hosts \ {<<>>}, pt \in Ports,
        t \in {<<>>, <<"/">>} } \cup
    { GitAt \o h \o t : h \in Hosts, t \in {<<>>, <<":">>} }

HasSubSeq(s, p) == \E i \in 1..(Len(s) - Len(p) + 1) : SubSeq(s, i, i + Len(p) - 1) = p

\* C6 as stated: https_repo_full_name returns None when the path portion of the
\* reference is empty (each of the listed spellings), and what it returns
\* otherwise is a string without scheme, host or .git suffix.
C6_NoneIffPathEmpty ==
    fn = "https_repo_full_name" =>
        IF Strip(ref, Whitespace) \in EmptyPathRefs
        THEN out = None
        ELSE out.tag = "str" =>
                 /\ ~EndsWith(out.s, DotGit)
                 /\ ~HasSubSeq(out.s, <<":", "/", "/">>)
                 /\ ~StartsWith(out.s, GitAt)

\* references with a URL authority and a non-empty path, and scp-style
\* git@host:path
AuthorityAndPathRefs ==
    { sc \o <<":", "/", "/">> \o u \o h \o pt \o <<"/">> \o p \o g :
        sc \in Schemes, u \in Users, h \in Hosts \ {<<>>}, pt \in Ports,
        p \in Paths \ {<<>>}, g \in GitSuffixes } \cup
    { GitAt \o h \o <<":">> \o p \o g :
        h \in Hosts \ {<<>>}, p \in Paths \ {<<>>}, g \in GitSuffixes }

\* s is "git@<host>:<path>.git" and t is "https://<host>/<path>.git" for the
\* same host and path (the host ends at some colon of s)
SameHostAndPath(s, t) ==
    \E k \in 5..(Len(s) - 4) :
        /\ s[k] = ":"
        /\ StartsWith(s, GitAt)
        /\ EndsWith(s, DotGit)
        /\ t = HttpsSep \o SubSeq(s, 5, k - 1) \o <<"/">>
                 \o SubSeq(s, k + 1, Len(s) - 4) \o DotGit

\* C7 as stated: on every reference with a URL authority and a non-empty path
\* (http, https or ssh) or in scp style, to_https_url returns
\* https://<host>/<path>.git for the host and path to_ssh_url puts into
\* git@<host>:<path>.git.
C7_HttpsMirrorsSsh ==
    (fn = "to_https_url" /\ ref \in AuthorityAndPathRefs)
        => SameHostAndPath(to_ssh_url(ref), out.s)

\* what precedes the path of a reference: nothing (bare), scheme and authority
\* with "/", or git@host:
PathPrefixes ==
    { <<>> } \cup
    { sc \o <<":", "/", "/">> \o u \o h \o pt \o <<"/">> :
        sc \in Schemes, u \in Users, h \in Hosts \ {<<>>}, pt \in Ports } \cup
    { GitAt \o h \o <<":">> : h \in Hosts \ {<<>>} }

\* C8 as stated: extra slashes before and after the owner/name path do not
\* change what to_ssh_url and to_https_url return.
C8_ExtraSlashesTrimmed ==
    Converted =>
        \A pre \in PathPrefixes, a \in Slashes, z \in Slashes :
            ref = pre \o a \o <<"o", "/", "n">> \o z
                => out = Apply(fn, pre \o <<"o", "/", "n">>)

-----------------------------------------------------------------------------
(* Claims about api.py and fetch_ssh.py.                                   *)

\* the name segment by position: the characters of nm from its first to its
\* last non-blank one, every space among them turned into a dash
NameSegment(nm) ==
    LET solid == { i \in 1..Len(nm) : nm[i] \notin Whitespace } IN
    IF solid = {} THEN <<>>
    ELSE LET lo == CHOOSE i \in solid : \A j \in solid : i <= j
             hi == CHOOSE i \in solid : \A j \in solid : j <= i
         IN  [k \in 1..(hi - lo + 1) |->
                 IF nm[lo + k - 1] = " " THEN "-" ELSE nm[lo + k - 1]]

\* C9 (checked under SpecBuild): build_repo_url(owner, name) returns
\* https://github.com/<owner>/<s>.git where s is name trimmed with every
\* remaining space turned into a dash, and raises ValueError exactly when
\* owner or s is empty.
C9_BuildRepoUrl ==
    built.fn = "build_repo_url" =>
        IF owner = <<>> \/ NameSegment(name) = <<>>
        THEN built.raised = "ValueError" /\ built.val = <<>>
        ELSE /\ built.raised = ""
             /\ built.val = HttpsGithub \o owner \o <<"/">>
                                \o NameSegment(name) \o DotGit

\* name " r r " gives the segment "r-r"
C9_Witness ==
    /\ built.fn = "build_repo_url"
    /\ owner = <<"a">>
    /\ name = <<" ", "r", " ", "r", " ">>
    /\ built.val = HttpsGithub \o <<"a", "/", "r", "-", "r">> \o DotGit

\* C10 as stated (checked under SpecClone): when clone_repo with dest_path None
\* or fetch_file_sparse has exited, however it exited, cleanup was called on
\* the directory it got from make_dir; a caller's dest_path is never cleaned up.
C10_TempDirReleasedOnEveryExit ==
    [][(pc # "idle" /\ pc' = "idle") =>
         /\ ((call.op = "fetch_file_sparse" \/ call.dest = "None")
                /\ call.tmp # NoDir) => call.tmp \in cleaned'
         /\ CallerDir \in cleaned' => CallerDir \in cleaned]_vars

\* Supporting C10: a GithubRepo that exists has left the gh path cached, so
\* the _gh_path of clone_repo never runs a check and never raises.
ClonePathCached ==
    /\ repo.state = "constructed" => ghPath # <<>>
    /\ pc # "idle" /\ call.op = "clone_repo" => ghPath # <<>>

\* C11 as stated (checked under SpecGh): over any sequence and interleaving of
\* require_gh calls and _gh_path accesses the check sequence is executed at
\* most once.
C11_CheckedAtMostOnce == ghChecks <= 1

\* The extent of the failure of C11: once _GH_PATH is set no call that starts
\* afterwards runs a check; only calls already past the test of _GH_PATH do.
CachedPathSkipsChecks ==
    [][\A t \in Threads :
         (ghPath # <<>> /\ ghThread[t] = "idle") => ghThread'[t] = "idle"]_vars

\* C12 as stated (checked under SpecRepo): every GithubRepo whose construction
\* completed has an owner and a repo_name that are non-empty and without "/",
\* whatever gh answered; a blank url makes construction raise ValueError.
C12_OwnerAndNameWellFormed ==
    /\ repo.state = "constructed" =>
           /\ repo.owner # <<>> /\ ~Contains(repo.owner, "/")
           /\ repo.repo_name # <<>> /\ ~Contains(repo.repo_name, "/")
    /\ (repo.state # "none" /\ Strip(repoArgs.url, Whitespace) = <<>>)
           => repo.state = "raised ValueError"

\* The extent of the failure of C12: owner and repo_name are non-empty and
\* without blanks around them, and the owner has no "/".
OwnerWellFormed ==
    repo.state = "constructed" =>
        /\ repo.owner # <<>> /\ ~Contains(repo.owner, "/")
        /\ repo.repo_name # <<>>
        /\ Strip(repo.owner, Whitespace) = repo.owner
        /\ Strip(repo.repo_name, Whitespace) = repo.repo_name

\* the steps of the log, and whether step s is in positions 1..n with status 0
StepsRun == [i \in 1..Len(pushLog) |-> pushLog[i].step]
Succeeded(s) ==
    \E i \in 1..Len(pushLog) : pushLog[i] = [step |-> s, outcome |-> ExitZero]
IsPrefix(a, b) == Len(a) <= Len(b) /\ SubSeq(b, 1, Len(a)) = a
OrderWithAdd ==
    <<GitInit, GitAdd, GitCommit, GitBranch, GitRemoteAdd, GitPush>>
OrderWithSetUrl ==
    <<GitInit, GitAdd, GitCommit, GitBranch, GitRemoteAdd, GitRemoteSetUrl,
      GitPush>>

\* C13 (checked under SpecPush): the git steps run in the order init, add,
\* commit, branch, remote add, push, with remote set-url between the last two
\* exactly when remote add exited non-zero; a step that exits non-zero (remote
\* add apart) makes the call raise ADHDError, and no step runs after a step
\* that exited non-zero or timed out; push runs only after init, add, commit
\* and branch exited with 0 and remote add or remote set-url did; the call
\* returns only after push exited with 0.
C13_PushStepsInOrder ==
    /\ IsPrefix(StepsRun, OrderWithAdd) \/ IsPrefix(StepsRun, OrderWithSetUrl)
    /\ \A i \in 1..Len(pushLog) :
         /\ pushLog[i].step = GitRemoteSetUrl
               => /\ i > 1
                  /\ pushLog[i - 1] = [step |-> GitRemoteAdd,
                                       outcome |-> ExitNonZero]
         /\ i < Len(pushLog) =>
               \/ pushLog[i].outcome = ExitZero
               \/ pushLog[i] = [step |-> GitRemoteAdd, outcome |-> ExitNonZero]
         /\ (pushLog[i].outcome = ExitNonZero /\ pushLog[i].step # GitRemoteAdd)
               => pushExit = "raised ADHDError"
         /\ pushLog[i].outcome = TimedOut => pushExit = "raised TimeoutExpired"
    /\ pushExit = "raised ADHDError" =>
           /\ pushLog # <<>>
           /\ pushLog[Len(pushLog)].outcome = ExitNonZero
    /\ pushExit = "raised ValueError" => pushLog = <<>>
    /\ pushExit # "none" => pushPc = "left"
    /\ (pushPc = GitPush \/ \E i \in 1..Len(pushLog) : pushLog[i].step = GitPush)
           => /\ Succeeded(GitInit) /\ Succeeded(GitAdd)
              /\ Succeeded(GitCommit) /\ Succeeded(GitBranch)
              /\ Succeeded(GitRemoteAdd) \/ Succeeded(GitRemoteSetUrl)
    /\ pushExit = "returned" =>
           pushLog[Len(pushLog)] = [step |-> GitPush, outcome |-> ExitZero]

\* a call that returned after remote add failed and remote set-url stepped in
C13_Witness ==
    /\ pushExit = "returned"
    /\ StepsRun = OrderWithSetUrl

====
